---- MODULE Spec2Model ----
(***************************************************************************)
(* Model of the Basketball-Reference game-log scraper.                     *)
(*                                                                         *)
(*   src/unnamed/part_001        batch variant: run() processes two        *)
(*                               players concurrently with Promise.all     *)
(*   src/backend/player-scrape.js  single-player variant, same alignment   *)
(*                               code and the same try/catch structure     *)
(*                                                                         *)
(* Three specifications share the definitions below:                       *)
(*   SpecAlign   the column alignment of processPlayer (validIndices,      *)
(*               cleanData, location mapping) applied to bounded raw       *)
(*               column sets, and applied a second time to its own output  *)
(*   Spec        run(): launchBrowser, the concurrent processPlayer calls  *)
(*               (one step per await), reporting and browser.close()       *)
(*   SpecLaunch  overlapping calls of launchBrowser                        *)
(*                                                                         *)
(* JavaScript values: a column is an array of strings or null.  A column   *)
(* is modelled as [isArray, v]; a missing element (undefined) and null     *)
(* inside an array are the strings UNDEFINED and NULL, which no table cell *)
(* of the model contains.  Array indices are 0-based as in the code.       *)
(***************************************************************************)
EXTENDS Integers, Sequences, FiniteSets

VARIABLES
    \* ---- SpecAlign
    phase,        \* "raw" | "aligned" | "realigned"
    raw,          \* the extracted column set (extractedStats, destructured)
    aligned,      \* the columns after lines 114-120
    realigned,    \* the alignment step applied to `aligned`
    \* ---- Spec
    run_pc,       \* position of run()
    pc,           \* position of each processPlayer call
    playerURL,    \* per player: what getPlayerGameLogUrl returned
    openPages,    \* per player: pages opened with newPage and not closed
    cols,         \* per player: extractedStats
    basic,        \* per player: the aligned basic columns
    adv,          \* per player: the advanced columns
    result,       \* per player: settled value of the processPlayer promise
    reported,     \* what run's forEach saw (playerStats)
    browserCloses,\* number of browser.close() calls
    \* ---- SpecLaunch
    browser,      \* the module-level `let browser` (0: undefined)
    lpc,          \* position of each launchBrowser call
    launches,     \* number of puppeteer.launch calls
    handle        \* per call: the browser it awaits, then the one it returned

alignVars  == <<phase, raw, aligned, realigned>>
runVars    == <<run_pc, pc, playerURL, openPages, cols, basic, adv, result, reported, browserCloses>>
launchVars == <<browser, lpc, launches, handle>>
vars       == <<alignVars, runVars, launchVars>>

-----------------------------------------------------------------------------
(* Bounds *)

\* Largest number of table rows of a raw column set.
MaxRows == 4

-----------------------------------------------------------------------------
(* JavaScript values *)

NULL      == "<null>"
UNDEFINED == "<undefined>"

Arr(s)  == [isArray |-> TRUE, v |-> s]
NullCol == [isArray |-> FALSE, v |-> <<>>]

\* arr[i] for a 0-based index: undefined beyond the end of the array.
At(s, i) == IF i + 1 \in DOMAIN s THEN s[i + 1] ELSE UNDEFINED

\* x ?? null
Nullish(x) == IF x = UNDEFINED \/ x = NULL THEN NULL ELSE x

RECURSIVE FilterSeq(_, _)
FilterSeq(s, drop) ==
    IF s = <<>> THEN <<>>
    ELSE IF Head(s) = drop THEN FilterSeq(Tail(s), drop)
    ELSE <<Head(s)>> \o FilterSeq(Tail(s), drop)

-----------------------------------------------------------------------------
(* The alignment code of processPlayer *)

\* A mutation: .filter(i => i) instead of .filter(i => i !== null), which
\* also drops index 0.
validIndicesTruthy(game_numbers) ==
    LET mapped == [k \in 1..Len(game_numbers) |->
                      IF game_numbers[k] # "" /\ k - 1 # 0 THEN k - 1 ELSE -1]
    IN  FilterSeq(mapped, -1)

\* game_numbers.map((num, index) => num !== '' ? index : null)
\*             .filter(i => i !== null)
\* In the intermediate array null is written -1 (no index is negative), so
\* that the sequence holds numbers only.
validIndices(game_numbers) ==
    LET mapped == [k \in 1..Len(game_numbers) |->
                      IF game_numbers[k] # "" THEN k - 1 ELSE -1]
    IN  FilterSeq(mapped, -1)

\* A mutation: cleanData without the `?? null`, which leaves undefined where
\* the column has no element.
cleanDataNoFill(valid, arr) ==
    Arr([j \in 1..Len(valid) |-> At(arr.v, valid[j])])

\* const cleanData = arr => validIndices.map(i => arr[i] ?? null);
\* Called with a column that is an array, or with null and no valid index
\* (the callback never runs); CleanThrows covers the remaining case.
cleanData(valid, arr) ==
    Arr([j \in 1..Len(valid) |-> Nullish(At(arr.v, valid[j]))])

\* arr[i] with arr === null is a TypeError: cleanData(null) throws as soon as
\* there is one valid index.
CleanThrows(valid, arr) == ~arr.isArray /\ valid # <<>>

\* A mutation: the two branches of the conditional swapped.
mapLocationSwapped(loc) == IF loc = "@" THEN "Home" ELSE "Away"

\* A mutation: a mapping that also accepts its own output, 'Away' staying
\* 'Away'.
mapLocationAwayKept(loc) == IF loc = "@" \/ loc = "Away" THEN "Away" ELSE "Home"

\* loc => (loc === '@' ? 'Away' : 'Home')
mapLocation(loc) == IF loc = "@" THEN "Away" ELSE "Home"

\* if (!game_numbers || !Array.isArray(game_numbers))
InvalidGameNumbers(game_numbers) == ~game_numbers.isArray

\* statsToExtract, as far as the model follows it, and the columns among them
\* that lines 117-119 replace by cleanData's result.
AllStats == {"game_numbers", "opp_teams", "game_dates", "game_locations", "pts"}
Filtered == {"game_numbers", "opp_teams", "game_dates"}

\* The statistics of the model: the presence key, the three columns the code
\* passes through cleanData, and pts for the sixteen basic statistics (pts,
\* ast, ..., ftPct, minutes_played) that are returned as extracted.
NoColumns ==
    [game_numbers   |-> NullCol, opp_teams |-> NullCol, game_dates |-> NullCol,
     game_locations |-> NullCol, pts       |-> NullCol]

\* How lines 108-120 end: "invalid" (the guard of line 108), "threw" (a
\* cleanData call on a null column) or "ok".
AlignOutcome(c) ==
    IF InvalidGameNumbers(c.game_numbers) THEN "invalid"
    ELSE LET valid == validIndices(c.game_numbers.v)
         IN  IF \/ CleanThrows(valid, c.opp_teams)
                \/ CleanThrows(valid, c.game_dates)
                \/ CleanThrows(valid, c.game_locations)
             THEN "threw" ELSE "ok"

\* The destructured columns after lines 114-120 (AlignOutcome(c) = "ok").
AlignedColumns(c) ==
    LET valid == validIndices(c.game_numbers.v)
        locs  == cleanData(valid, c.game_locations).v
    IN  [game_numbers   |-> cleanData(valid, c.game_numbers),
         opp_teams      |-> cleanData(valid, c.opp_teams),
         game_dates     |-> cleanData(valid, c.game_dates),
         game_locations |-> Arr([j \in 1..Len(locs) |-> mapLocation(locs[j])]),
         pts            |-> c.pts]

AlignStep(c) ==
    LET o == AlignOutcome(c)
    IN  [outcome |-> o, columns |-> IF o = "ok" THEN AlignedColumns(c) ELSE NoColumns]

NotAligned == [outcome |-> "none", columns |-> NoColumns]

-----------------------------------------------------------------------------
(* Raw column sets: what extractStatGenLog returns for a game-log table *)

\* The cells of row k (1-based) of the table, by statistic.
DateCell(k) == IF k <= 6 THEN <<"10-22", "10-25", "10-26", "10-28", "10-30", "11-01">>[k]
               ELSE "11-04"
PtsCell(k)  == IF k <= 6 THEN <<"10", "11", "12", "13", "14", "15">>[k] ELSE "16"
OppCell(k)  == IF k % 2 = 1 THEN "BOS" ELSE "NYK"
NumStr(k)   == IF k <= 6 THEN <<"1", "2", "3", "4", "5", "6">>[k] ELSE "7"

\* The game_season column of a table whose row k is a played game iff
\* played[k]: the running count of played games, empty on the other rows.
GameSeason(played) ==
    [k \in DOMAIN played |->
        IF played[k] THEN NumStr(Cardinality({i \in 1..k : played[i]})) ELSE ""]

\* What an extraction of a column of n rows can give: the whole column, the
\* column one cell short, or null (the extraction threw and was caught).
Extracted(cells, n) ==
    {Arr(cells), NullCol} \cup
    (IF n > 0 THEN {Arr(SubSeq(cells, 1, n - 1))} ELSE {})

RawColumnSets ==
    UNION { UNION { UNION {
        [game_numbers   : {Arr(GameSeason(played)), NullCol},
         opp_teams      : Extracted([k \in 1..n |-> OppCell(k)], n),
         game_dates     : Extracted([k \in 1..n |-> DateCell(k)], n),
         game_locations : Extracted(locs, n),
         pts            : Extracted([k \in 1..n |-> PtsCell(k)], n)]
        : locs \in [1..n -> {"", "@"}] }
        : played \in [1..n -> BOOLEAN] }
        : n \in 0..MaxRows }

-----------------------------------------------------------------------------
(* SpecAlign *)

RunIdle ==
    /\ run_pc = "idle" /\ pc = <<>> /\ playerURL = <<>> /\ openPages = <<>>
    /\ cols = <<>>
    /\ basic = <<>> /\ adv = <<>> /\ result = <<>> /\ reported = <<>>
    /\ browserCloses = 0

LaunchIdle ==
    /\ browser = 0 /\ lpc = <<>> /\ launches = 0 /\ handle = <<>>

InitAlign ==
    /\ phase = "raw"
    /\ raw \in RawColumnSets
    /\ aligned = NotAligned
    /\ realigned = NotAligned
    /\ RunIdle
    /\ LaunchIdle

\* Lines 101-120 of processPlayer on the extracted columns.
Align ==
    /\ phase = "raw"
    /\ aligned' = AlignStep(raw)
    /\ phase' = "aligned"
    /\ UNCHANGED <<raw, realigned, runVars, launchVars>>

\* The same step applied to the columns it produced.
Realign ==
    /\ phase = "aligned"
    /\ aligned.outcome = "ok"
    /\ realigned' = AlignStep(aligned.columns)
    /\ phase' = "realigned"
    /\ UNCHANGED <<raw, aligned, runVars, launchVars>>

NextAlign == Align \/ Realign

SpecAlign == InitAlign /\ [][NextAlign]_vars

-----------------------------------------------------------------------------
(* Spec: run() and the processPlayer calls it starts *)

\* The players array of run().
NumPlayers == 2
Players == 1..NumPlayers

\* The game-log tables a player's page can hold: no row at all, or three rows
\* of which the second is not a played game.
FullColumns(played, locs) ==
    [game_numbers   |-> Arr(GameSeason(played)),
     opp_teams      |-> Arr([k \in DOMAIN played |-> OppCell(k)]),
     game_dates     |-> Arr([k \in DOMAIN played |-> DateCell(k)]),
     game_locations |-> Arr(locs),
     pts            |-> Arr([k \in DOMAIN played |-> PtsCell(k)])]

GameLogs == {FullColumns(<<>>, <<>>), FullColumns(<<TRUE, FALSE, TRUE>>, <<"@", "", "">>)}

\* extractedStats: every extraction gives its column, or null when its
\* evaluate threw (lines 84-91); the model lets at most one of them fail.
ExtractedSets ==
    {[f \in AllStats |-> IF f \in failed THEN NullCol ELSE c[f]] :
        c \in GameLogs, failed \in {{}} \cup {{f} : f \in AllStats}}

AllFailed == [f \in AllStats |-> NullCol]

\* The two advanced columns, each the column or null (.catch(() => null)).
AdvColumn == Arr(<<"28.5", "31.0">>)
NoAdv   == [done |-> FALSE, usg_pct |-> NullCol, player_or |-> NullCol]
AdvSets == [done : {TRUE}, usg_pct : {AdvColumn, NullCol}, player_or : {AdvColumn, NullCol}]
AdvAllFailed == [done |-> TRUE, usg_pct |-> NullCol, player_or |-> NullCol]

NotExtracted == [done |-> FALSE, columns |-> NoColumns]

\* return null
NullResult ==
    [ok |-> FALSE, columns |-> NoColumns, usg_pct |-> NullCol, player_or |-> NullCol]

\* A mutation: an empty result object in place of null.
EmptyResult ==
    [ok |-> TRUE, columns |-> [f \in AllStats |-> Arr(<<>>)],
     usg_pct |-> NullCol, player_or |-> NullCol]

\* What the guard of line 108 returns (line 111).
OnInvalidGameNumbers == NullResult

\* The object returned at lines 133-140.
PlayerResult(b, a) ==
    [ok |-> TRUE, columns |-> b, usg_pct |-> a.usg_pct, player_or |-> a.player_or]

InitRun ==
    /\ run_pc = "launching"
    /\ pc = [p \in Players |-> "idle"]
    /\ playerURL = [p \in Players |-> "pending"]
    /\ openPages = [p \in Players |-> 0]
    /\ cols = [p \in Players |-> NotExtracted]
    /\ basic = [p \in Players |-> NotExtracted]
    /\ adv = [p \in Players |-> NoAdv]
    /\ result = [p \in Players |-> NullResult]
    /\ reported = <<>>
    /\ browserCloses = 0
    /\ browser = 0 /\ launches = 0 /\ lpc = <<>> /\ handle = <<>>
    /\ phase = "none" /\ raw = NoColumns /\ aligned = NotAligned /\ realigned = NotAligned

\* Page operations succeed only on a browser that is launched and not closed.
BrowserUp == browser # 0 /\ browserCloses = 0

Goes(p, to) == pc' = [pc EXCEPT ![p] = to]

\* processPlayer's promise fulfils with r.
Settle(p, r) ==
    /\ pc' = [pc EXCEPT ![p] = "done"]
    /\ result' = [result EXCEPT ![p] = r]

\* A mutation: a catch block that throws again, so that the promise rejects.
ProcessPlayerRethrow(p) ==
    /\ pc' = [pc EXCEPT ![p] = "rejected"]
    /\ UNCHANGED result

\* catch (error) { console.error(...); return null; }   (lines 142-145)
ProcessPlayerCatch(p) == Settle(p, NullResult)

\* getPlayerGameLogUrl's catch returns null (lines 39-42), and processPlayer
\* returns null on a falsy URL (lines 68-71).
RosterFailed(p) ==
    /\ playerURL' = [playerURL EXCEPT ![p] = NULL]
    /\ Settle(p, NullResult)

\* run: const browser = await launchBrowser().  On success the map callback
\* calls processPlayer for every player, each running up to its first await,
\* browser.newPage() in getPlayerGameLogUrl; a failed launch rejects run()
\* before its try block.
Launch ==
    /\ run_pc = "launching"
    /\ \/ /\ browser' = 1 /\ launches' = launches + 1
          /\ pc' = [p \in Players |-> "roster_newPage"]
          /\ run_pc' = "awaiting_all"
       \/ /\ run_pc' = "failed"
          /\ UNCHANGED <<browser, launches, pc>>
    /\ UNCHANGED <<playerURL, openPages, cols, basic, adv, result, reported,
                   browserCloses, lpc, handle, alignVars>>

\* getPlayerGameLogUrl: const page = await browser.newPage()
RosterNewPage(p) ==
    /\ pc[p] = "roster_newPage"
    /\ \/ /\ BrowserUp
          /\ openPages' = [openPages EXCEPT ![p] = @ + 1]
          /\ Goes(p, "roster_goto")
          /\ UNCHANGED <<playerURL, result>>
       \/ /\ RosterFailed(p)
          /\ UNCHANGED openPages
    /\ UNCHANGED <<run_pc, cols, basic, adv, reported, browserCloses, launchVars, alignVars>>

\* getPlayerGameLogUrl: await page.goto(teamURL)
RosterGoto(p) ==
    /\ pc[p] = "roster_goto"
    /\ \/ /\ BrowserUp
          /\ Goes(p, "roster_evaluate")
          /\ UNCHANGED <<playerURL, result>>
       \/ RosterFailed(p)
    /\ UNCHANGED <<run_pc, openPages, cols, basic, adv, reported, browserCloses,
                   launchVars, alignVars>>

\* getPlayerGameLogUrl: const playerURL = await page.evaluate(...): the URL of
\* the roster entry, or null when the roster has no such player.
RosterEvaluate(p) ==
    /\ pc[p] = "roster_evaluate"
    /\ \/ /\ BrowserUp
          /\ \E u \in {"url", NULL} : playerURL' = [playerURL EXCEPT ![p] = u]
          /\ Goes(p, "roster_close")
          /\ UNCHANGED result
       \/ RosterFailed(p)
    /\ UNCHANGED <<run_pc, openPages, cols, basic, adv, reported, browserCloses,
                   launchVars, alignVars>>

\* getPlayerGameLogUrl: await page.close(); return playerURL; then lines 68-73
\* of processPlayer: return null, or page = await browser.newPage().
RosterClose(p) ==
    /\ pc[p] = "roster_close"
    /\ \/ /\ BrowserUp
          /\ openPages' = [openPages EXCEPT ![p] = @ - 1]
          /\ IF playerURL[p] = NULL
             THEN Settle(p, NullResult)
             ELSE Goes(p, "newPage") /\ UNCHANGED result
          /\ UNCHANGED playerURL
       \/ /\ RosterFailed(p)
          /\ UNCHANGED openPages
    /\ UNCHANGED <<run_pc, cols, basic, adv, reported, browserCloses, launchVars, alignVars>>

\* processPlayer: const page = await browser.newPage()
NewPage(p) ==
    /\ pc[p] = "newPage"
    /\ \/ /\ BrowserUp
          /\ openPages' = [openPages EXCEPT ![p] = @ + 1]
          /\ Goes(p, "goto")
          /\ UNCHANGED result
       \/ /\ ProcessPlayerCatch(p)
          /\ UNCHANGED openPages
    /\ UNCHANGED <<run_pc, playerURL, cols, basic, adv, reported, browserCloses,
                   launchVars, alignVars>>

\* processPlayer: await page.goto(playerURL)
Goto(p) ==
    /\ pc[p] = "goto"
    /\ \/ /\ BrowserUp
          /\ Goes(p, "extract")
          /\ UNCHANGED result
       \/ ProcessPlayerCatch(p)
    /\ UNCHANGED <<run_pc, playerURL, openPages, cols, basic, adv, reported,
                   browserCloses, launchVars, alignVars>>

\* processPlayer: extractedStats = await Promise.all(...), every extraction
\* with its own try/catch, then lines 94-123 up to the next await: the guard
\* on game_numbers (page.close() is awaited next), the alignment (a throw goes
\* to the catch block), and the call of page.goto for the advanced page.
\* extractedStats never holds undefined (?? null, and null from the catch), so
\* the branch of line 95 is never taken.
Extract(p) ==
    /\ pc[p] = "extract"
    /\ \E c \in (IF BrowserUp THEN ExtractedSets ELSE {AllFailed}) :
          /\ cols' = [cols EXCEPT ![p] = [done |-> TRUE, columns |-> c]]
          /\ IF AlignOutcome(c) = "invalid"
             THEN Goes(p, "close_invalid") /\ UNCHANGED <<basic, result>>
             ELSE IF AlignOutcome(c) = "threw"
             THEN ProcessPlayerCatch(p) /\ UNCHANGED basic
             ELSE /\ basic' = [basic EXCEPT ![p] =
                                  [done |-> TRUE, columns |-> AlignedColumns(c)]]
                  /\ Goes(p, "adv_goto")
                  /\ UNCHANGED result
    /\ UNCHANGED <<run_pc, playerURL, openPages, adv, reported, browserCloses,
                   launchVars, alignVars>>

\* processPlayer, lines 110-111: await page.close(); return null
CloseInvalid(p) ==
    /\ pc[p] = "close_invalid"
    /\ \/ /\ BrowserUp
          /\ openPages' = [openPages EXCEPT ![p] = @ - 1]
          /\ Settle(p, OnInvalidGameNumbers)
       \/ /\ ProcessPlayerCatch(p)
          /\ UNCHANGED openPages
    /\ UNCHANGED <<run_pc, playerURL, cols, basic, adv, reported, browserCloses,
                   launchVars, alignVars>>

\* processPlayer: await page.goto(advanced game-log URL)
AdvGoto(p) ==
    /\ pc[p] = "adv_goto"
    /\ \/ /\ BrowserUp
          /\ Goes(p, "adv_extract")
          /\ UNCHANGED result
       \/ ProcessPlayerCatch(p)
    /\ UNCHANGED <<run_pc, playerURL, openPages, cols, basic, adv, reported,
                   browserCloses, launchVars, alignVars>>

\* processPlayer: [usg_pct, player_or] = await Promise.all([... .catch(() => null)])
AdvExtract(p) ==
    /\ pc[p] = "adv_extract"
    /\ \E a \in (IF BrowserUp THEN AdvSets ELSE {AdvAllFailed}) :
          adv' = [adv EXCEPT ![p] = a]
    /\ Goes(p, "close")
    /\ UNCHANGED <<run_pc, playerURL, openPages, cols, basic, result, reported,
                   browserCloses, launchVars, alignVars>>

\* processPlayer: await page.close(); return {...}
Close(p) ==
    /\ pc[p] = "close"
    /\ \/ /\ BrowserUp
          /\ openPages' = [openPages EXCEPT ![p] = @ - 1]
          /\ Settle(p, PlayerResult(basic[p].columns, adv[p]))
       \/ /\ ProcessPlayerCatch(p)
          /\ UNCHANGED openPages
    /\ UNCHANGED <<run_pc, playerURL, cols, basic, adv, reported, browserCloses,
                   launchVars, alignVars>>

\* run: await Promise.all(...) settles when every promise has fulfilled, or as
\* soon as one has rejected.  Fulfilled: the forEach reads the results.  Either
\* way the finally block calls browser.close().
AwaitAll ==
    /\ run_pc = "awaiting_all"
    /\ IF \E p \in Players : pc[p] = "rejected"
       THEN UNCHANGED reported
       ELSE /\ \A p \in Players : pc[p] = "done"
            /\ reported' = result
    /\ browserCloses' = browserCloses + 1
    /\ run_pc' = "closing"
    /\ UNCHANGED <<pc, playerURL, openPages, cols, basic, adv, result, launchVars, alignVars>>

\* run: await browser.close() returns.
BrowserClosed ==
    /\ run_pc = "closing"
    /\ run_pc' = "finished"
    /\ UNCHANGED <<pc, playerURL, openPages, cols, basic, adv, result, reported,
                   browserCloses, launchVars, alignVars>>

PlayerStep(p) ==
    \/ RosterNewPage(p) \/ RosterGoto(p) \/ RosterEvaluate(p) \/ RosterClose(p)
    \/ NewPage(p) \/ Goto(p) \/ Extract(p) \/ CloseInvalid(p)
    \/ AdvGoto(p) \/ AdvExtract(p) \/ Close(p)

Next ==
    \/ Launch
    \/ \E p \in Players : PlayerStep(p)
    \/ AwaitAll
    \/ BrowserClosed

Spec == InitRun /\ [][Next]_vars

-----------------------------------------------------------------------------
(* SpecLaunch: calls of launchBrowser that may overlap *)

\* Number of launchBrowser calls.
NumCallers == 3
Callers == 1..NumCallers

InitLaunch ==
    /\ browser = 0
    /\ launches = 0
    /\ lpc = [c \in Callers |-> "idle"]
    /\ handle = [c \in Callers |-> 0]
    /\ RunIdle
    /\ phase = "none" /\ raw = NoColumns /\ aligned = NotAligned /\ realigned = NotAligned

\* launchBrowser up to its await: if (!browser) calls puppeteer.launch, whose
\* k-th call creates browser k; otherwise the call returns the stored browser.
CallLaunchBrowser(c) ==
    /\ lpc[c] = "idle"
    /\ IF browser = 0
       THEN /\ launches' = launches + 1
            /\ handle' = [handle EXCEPT ![c] = launches + 1]
            /\ lpc' = [lpc EXCEPT ![c] = "launching"]
       ELSE /\ handle' = [handle EXCEPT ![c] = browser]
            /\ lpc' = [lpc EXCEPT ![c] = "returned"]
            /\ UNCHANGED launches
    /\ UNCHANGED <<browser, runVars, alignVars>>

\* launchBrowser after its await: browser = <the launched browser>; return browser
LaunchSettles(c) ==
    /\ lpc[c] = "launching"
    /\ browser' = handle[c]
    /\ lpc' = [lpc EXCEPT ![c] = "returned"]
    /\ UNCHANGED <<launches, handle, runVars, alignVars>>

NextLaunch == \E c \in Callers : CallLaunchBrowser(c) \/ LaunchSettles(c)

SpecLaunch == InitLaunch /\ [][NextLaunch]_vars

-----------------------------------------------------------------------------
(* Properties of the alignment, stated from the rows of the table and not   *)
(* from validIndices                                                         *)

\* The 0-based rows of a game-number column that hold a played game.
ValidRows(gn) == {i \in 0..(Len(gn) - 1) : gn[i + 1] # ""}

\* The j-th smallest element of a set of numbers (j from 1).
Nth(S, j) == CHOOSE i \in S : Cardinality({x \in S : x < i}) = j - 1

AlignedOk == phase # "raw" /\ aligned.outcome = "ok"

\* C1: for raw columns that all have the N rows of the table, every sequence
\* of the result has length K, the number of rows with a non-empty game number.
C1_RowCount ==
    (/\ AlignedOk
     /\ \A f \in AllStats :
           raw[f].isArray /\ Len(raw[f].v) = Len(raw.game_numbers.v))
    => \A f \in AllStats :
           Len(aligned.columns[f].v) = Cardinality(ValidRows(raw.game_numbers.v))

\* C2: the valid indices are exactly the rows with a non-empty game number, in
\* strictly ascending order, and the j-th value of every filtered column is the
\* raw value at the j-th such row (for game_locations: its mapped value).
C2_OrderPreserved ==
    AlignedOk =>
        LET gn    == raw.game_numbers.v
            S     == ValidRows(gn)
            valid == validIndices(gn)
        IN  /\ Len(valid) = Cardinality(S)
            /\ \A j \in 1..Len(valid) : valid[j] = Nth(S, j)
            /\ \A j, k \in 1..Len(valid) : j < k => valid[j] < valid[k]
            /\ \A f \in Filtered \cup {"game_locations"} :
                 /\ Len(aligned.columns[f].v) = Cardinality(S)
                 /\ \A j \in 1..Cardinality(S) :
                      Nth(S, j) < Len(raw[f].v) =>
                        IF f = "game_locations"
                        THEN (aligned.columns[f].v[j] = "Away")
                                <=> (raw[f].v[Nth(S, j) + 1] = "@")
                        ELSE aligned.columns[f].v[j] = raw[f].v[Nth(S, j) + 1]

\* A played game after a skipped row, and at least two played games.
C2_Witness ==
    /\ AlignedOk
    /\ Len(aligned.columns.game_dates.v) >= 2
    /\ \E i, j \in 1..Len(raw.game_numbers.v) :
          i < j /\ raw.game_numbers.v[i] = "" /\ raw.game_numbers.v[j] # ""
    /\ Len(raw.game_dates.v) = Len(raw.game_numbers.v)

\* C3: at every valid row the location is 'Away' when the raw value is "@" and
\* 'Home' for every other raw value, the empty string and a missing value
\* included; the mapping does not fail on a location column that is an array;
\* and the scenario ["1","","2","3"] / ["","@","@",""] gives Home, Away, Home.
C3_LocationTotal ==
    /\ AlignedOk =>
        LET S == ValidRows(raw.game_numbers.v)
        IN  /\ Len(aligned.columns.game_locations.v) = Cardinality(S)
            /\ \A j \in 1..Cardinality(S) :
                 aligned.columns.game_locations.v[j] =
                    (IF At(raw.game_locations.v, Nth(S, j)) = "@" THEN "Away" ELSE "Home")
    /\ (/\ phase # "raw"
        /\ raw.game_numbers.isArray /\ raw.opp_teams.isArray
        /\ raw.game_dates.isArray /\ raw.game_locations.isArray)
           => aligned.outcome = "ok"
    /\ (/\ phase # "raw"
        /\ raw.game_numbers = Arr(<<"1", "", "2", "3">>)
        /\ raw.game_locations = Arr(<<"", "@", "@", "">>)
        /\ raw.opp_teams.isArray /\ raw.game_dates.isArray)
           => /\ aligned.outcome = "ok"
              /\ aligned.columns.game_locations = Arr(<<"Home", "Away", "Home">>)
              /\ Len(aligned.columns.game_numbers.v) = 3

\* The scenario of the specification, aligned.
C3_Witness ==
    /\ phase = "aligned"
    /\ raw.game_numbers = Arr(<<"1", "", "2", "3">>)
    /\ raw.game_locations = Arr(<<"", "@", "@", "">>)
    /\ aligned.columns.game_locations = Arr(<<"Home", "Away", "Home">>)

C6_Idempotent ==
    phase = "realigned" =>
        realigned.outcome = "ok" /\ realigned.columns = aligned.columns

\* C6 amended: the second application succeeds and leaves every column but
\* game_locations unchanged; in game_locations every value, 'Away' included,
\* becomes 'Home'.
C6_IdempotentButLocation ==
    phase = "realigned" =>
        /\ realigned.outcome = "ok"
        /\ \A f \in AllStats \ {"game_locations"} :
              realigned.columns[f] = aligned.columns[f]
        /\ Len(realigned.columns.game_locations.v) = Len(aligned.columns.game_locations.v)
        /\ \A j \in 1..Len(realigned.columns.game_locations.v) :
              realigned.columns.game_locations.v[j] = "Home"

\* A set with an away game and an absent marker, aligned twice.
C6_Witness ==
    /\ phase = "realigned"
    /\ \E j \in 1..Len(aligned.columns.game_locations.v) :
          aligned.columns.game_locations.v[j] = "Away"
    /\ \E j \in 1..Len(aligned.columns.opp_teams.v) :
          aligned.columns.opp_teams.v[j] = NULL
    /\ Len(raw.game_numbers.v) > Len(aligned.columns.game_numbers.v)

-----------------------------------------------------------------------------
(* Properties of run and processPlayer *)

\* C4: a game-number column that is null after the extraction never leads to
\* a success result, empty or partial: processPlayer stops before any
\* alignment, and its promise fulfils with null and does not reject.
C4_MalformedRejected ==
    \A p \in Players :
        (cols[p].done /\ InvalidGameNumbers(cols[p].columns.game_numbers)) =>
            /\ pc[p] \in {"close_invalid", "done"}
            /\ ~basic[p].done
            /\ pc[p] = "done" => ~result[p].ok

\* A player whose game numbers could not be extracted, settled with null after
\* closing its page.
C4_Witness ==
    \E p \in Players :
        /\ cols[p].done /\ InvalidGameNumbers(cols[p].columns.game_numbers)
        /\ cols[p].columns.pts.isArray
        /\ pc[p] = "done" /\ ~result[p].ok /\ openPages[p] = 0

\* C7: no processPlayer promise rejects; while a player is still being
\* processed the shared browser stays up and the player's next step can be
\* taken, whatever happened to its sibling; run goes on to its report and to
\* browser.close() only when every player has settled, and reports each
\* player's own result.
C7_FailureIsolated ==
    /\ \A p \in Players : pc[p] # "rejected"
    /\ \A p \in Players :
          pc[p] \notin {"idle", "done"} => BrowserUp /\ ENABLED PlayerStep(p)
    /\ (run_pc \in {"closing", "finished"} \/ browserCloses > 0) =>
          /\ \A p \in Players : pc[p] = "done"
          /\ reported = result

\* One player failed after opening its page, its sibling succeeded, and both
\* were reported.
C7_Witness ==
    /\ run_pc = "finished"
    /\ \E p, q \in Players :
          /\ ~reported[p].ok /\ openPages[p] > 0
          /\ reported[q].ok /\ reported[q].columns.game_numbers.v # <<>>

\* C8: a processPlayer call whose basic stats are aligned and which is at the
\* navigation to the advanced page, or at the advanced extraction, does not
\* settle with null.
C8_BasicSurvivesAdvFailure ==
    [][\A p \in Players :
          (pc[p] \in {"adv_goto", "adv_extract"} /\ basic[p].done /\ pc'[p] = "done")
              => result'[p].ok]_vars

\* C10: a settled processPlayer call has closed every page it opened, and
\* browser.close() is called once, after every call has settled.
C10_NoPageLeak ==
    /\ \A p \in Players : pc[p] = "done" => openPages[p] = 0
    /\ browserCloses <= 1
    /\ browserCloses = 1 => \A p \in Players : pc[p] = "done"
    /\ run_pc = "finished" => browserCloses = 1

-----------------------------------------------------------------------------
(* Property of launchBrowser *)

\* C9: puppeteer.launch is called at most once and all calls return the same
\* browser.
C9_SingleBrowser ==
    /\ launches <= 1
    /\ \A c, d \in Callers :
          (lpc[c] = "returned" /\ lpc[d] = "returned") => handle[c] = handle[d]

====
